---- MODULE Spec2Model ----
(***************************************************************************)
(* Model of the goal-directed action planner of emoji-world               *)
(* (src/src/app.ts): goalDistance, applyActions, cost, solutionToActions,  *)
(* the action catalog AllActions and the search loop of makePlanBetter.    *)
(*                                                                         *)
(* Numbers.  The drives (hunger, thirst, energy, social) are held in       *)
(* tenths, so the source's 100 is 1000 here and "energy + 10" is           *)
(* "energy + 100".  goalDistance is held in thousandths, so a missing      *)
(* inventory unit or an unequal boolean counts 1000 and a numeric gap of   *)
(* one tenth counts 1 (the source's abs(goal - value) / 100).  NaN and     *)
(* Infinity are the integers NaN and Infinity below, with the arithmetic   *)
(* and the comparisons of JavaScript defined on them.                      *)
(***************************************************************************)
EXTENDS Integers, Sequences, FiniteSets, TLC

VARIABLES agent, state, goal, solutionQueue, solution, pc, result,
          world, cur, tpc, ticks, snapshot, did

\* the tick loop: the State the loop folds over, the index of the agent
\* being updated, the position in update, the number of ticks so far, the
\* State as update received it, and the way the last step of the loop went
tickVars == <<world, cur, tpc, ticks, snapshot, did>>

vars == <<agent, state, goal, solutionQueue, solution, pc, result,
          world, cur, tpc, ticks, snapshot, did>>

(***************************************************************************)
(* Bounds of the model.                                                    *)
(***************************************************************************)
height == 3
width == 8
MaxInitCount == 1
MaxGoalCount == 2

(***************************************************************************)
(* JavaScript numbers that are not finite.                                 *)
(***************************************************************************)
Infinity == 1000000
NaN == -1

Abs(x) == IF x < 0 THEN -x ELSE x
Max(a, b) == IF a >= b THEN a ELSE b

\* The one element of a set of one element.  { F(v) : v \in {e} } computes
\* e once, where an operator applied to e would compute it at each use.
The(S) == CHOOSE v \in S : TRUE

\* a + b on numbers that may be NaN or Infinity (never negative here)
Plus(a, b) ==
    The({ IF x = NaN \/ y = NaN THEN NaN
          ELSE IF x = Infinity \/ y = Infinity THEN Infinity
          ELSE x + y : x \in {a}, y \in {b} })

\* a - b > 0 in JavaScript, for a, b finite or NaN: NaN compares false
DeltaPositive(a, b) == a # NaN /\ b # NaN /\ a - b > 0

(***************************************************************************)
(* The grid.  A cell holds an entity kind or "null".                       *)
(***************************************************************************)
Rows == 0 .. (height - 1)
Columns == 0 .. (width - 1)
Pos(r, c) == [row |-> r, column |-> c]
Cells == {Pos(r, c) : r \in Rows, c \in Columns}

\* the cells in the order of flatten(state.background): row by row
CellIndex(p) == p.row * width + p.column
CellAt(i) == Pos(i \div width, i % width)
NumCells == height * width

distance(a, b) == Abs(a.row - b.row) + Abs(a.column - b.column)

EntitiesOfKind(st, type) == {p \in Cells : st.background[p] = type}

\* find(type): the position of the nearest entity of the kind; the sort is
\* stable, so among the nearest the first in row order is taken.  <<>> is null.
find(type, st, ag) ==
    LET es == EntitiesOfKind(st, type)
    IN  IF es = {} THEN <<>>
        ELSE LET d == CHOOSE d \in 0 .. (height + width) :
                        /\ \E p \in es : distance(p, ag.position) = d
                        /\ \A p \in es : distance(p, ag.position) >= d
                 near == {p \in es : distance(p, ag.position) = d}
             IN  <<CHOOSE p \in near : \A q \in near : CellIndex(p) <= CellIndex(q)>>

entityDistance(type, st, ag) ==
    LET entity == find(type, st, ag)
    IN  IF entity = <<>> THEN Infinity ELSE distance(entity[1], ag.position)

entityExists(type, st) == IF EntitiesOfKind(st, type) # {} THEN 0 ELSE 1

otherAgentExists(st, ag) ==
    IF \E i \in 1 .. Len(st.agents) : st.agents[i].id # ag.id THEN 0 ELSE 1

holding(kind, ag) == IF ag.holding = kind THEN 0 ELSE 1

\* a check that is content with one unit less
hasOffByOne(type, quantity, ag) ==
    LET difference == quantity - 1 - Max(0, ag.inventory[type])
    IN  IF difference <= 0 THEN 0 ELSE difference

has(type, quantity, ag) ==
    LET difference == quantity - Max(0, ag.inventory[type])
    IN  IF difference <= 0 THEN 0 ELSE difference

\* build(type, state, agent): the cell above the agent gets the entity; no
\* cell changes when that cell is outside the grid.
\* The life of a fire is kept beside the grid: st.life[p] is the life of the
\* entity at p, 0 for an entity that has none.
FireLife == 30

build(type, st, ag) ==
    [st EXCEPT !.background =
        [p \in Cells |->
            IF p.row = ag.position.row - 1 /\ p.column = ag.position.column
            THEN type ELSE st.background[p]],
               !.life =
        [p \in Cells |->
            IF p.row = ag.position.row - 1 /\ p.column = ag.position.column
            THEN (IF type = "fire" THEN FireLife ELSE 0) ELSE st.life[p]]]

\* removeAdjacent(state, agent, type): the first entity of the kind, in row
\* order, at distance <= 1 of the agent is removed; none when there is none.
removeAdjacent(st, ag, type) ==
    LET adj == {p \in EntitiesOfKind(st, type) : distance(ag.position, p) <= 1}
    IN  IF adj = {} THEN st
        ELSE LET adjacentApple == CHOOSE p \in adj :
                                      \A q \in adj : CellIndex(p) <= CellIndex(q)
             IN  [st EXCEPT !.background[adjacentApple] = "null",
                            !.life[adjacentApple] = 0]

addToInventory(inventory, type, amount) ==
    [inventory EXCEPT ![type] = inventory[type] + amount]

(***************************************************************************)
(* The action catalog.  An action is known by its name; canBePerformed,    *)
(* effect and actionCost are the fields of the same name of its entry.     *)
(***************************************************************************)
AllActions ==
    << "Eat apple", "Pick up apple", "Build Shelter", "Build Well", "Fell Tree",
       "Make Axe", "Gather Stone", "Gather Branch", "Drink from Well",
       "Sleep at Shelter", "Eat Cooked Fish", "Cook Fish", "Light Fire",
       "Catch Fish", "Make Rod", "Put down equipment", "Chat" >>

ActionNames == {AllActions[i] : i \in 1 .. Len(AllActions)}

\* a conjunction that forgets its second check
bothFirstOnly(a, b) == a

both(a, b) == a + b

either(a, b) == IF a = 0 \/ b = 0 THEN 0 ELSE 1

canBePerformed(action, st, ag) ==
    CASE action = "Eat apple" -> has("apples", 1, ag)
      [] action = "Pick up apple" -> entityExists("apple", st)
      [] action = "Build Shelter" -> has("logs", 2, ag)
      [] action = "Build Well" -> has("stones", 2, ag)
      [] action = "Fell Tree" -> both(holding("axe", ag), entityExists("tree", st))
      [] action = "Make Axe" -> both(has("stones", 1, ag), has("branches", 1, ag))
      [] action = "Gather Stone" -> entityExists("stone", st)
      [] action = "Gather Branch" -> entityExists("branch", st)
      [] action = "Drink from Well" -> entityExists("well", st)
      [] action = "Sleep at Shelter" -> IF ag.hasShelter THEN 0 ELSE 1
      [] action = "Eat Cooked Fish" -> has("cookedFish", 1, ag)
      [] action = "Cook Fish" -> both(entityExists("fire", st), has("fish", 1, ag))
      [] action = "Light Fire" -> has("branches", 1, ag)
      [] action = "Catch Fish" -> holding("rod", ag)
      [] action = "Make Rod" -> both(holding("null", ag), has("branches", 1, ag))
      [] action = "Put down equipment" -> either(holding("rod", ag), holding("axe", ag))
      [] action = "Chat" -> otherAgentExists(st, ag)

\* the { state, agent } an effect returns
Effected(st, ag) == [state |-> st, agent |-> ag]

effect(action, st, ag) ==
    CASE action = "Eat apple" ->
            Effected(st, [ag EXCEPT !.hunger = 1000,
                                    !.inventory = addToInventory(ag.inventory, "apples", -1)])
      [] action = "Pick up apple" ->
            Effected(removeAdjacent(st, ag, "apple"),
                     [ag EXCEPT !.inventory = addToInventory(ag.inventory, "apples", 1)])
      [] action = "Build Shelter" ->
            Effected(build("house", st, ag),
                     [ag EXCEPT !.hasShelter = TRUE,
                                !.shelterLocation =
                                    <<Pos(ag.position.row - 1, ag.position.column)>>,
                                !.inventory = addToInventory(ag.inventory, "logs", -2)])
      [] action = "Build Well" ->
            Effected(build("well", st, ag),
                     [ag EXCEPT !.inventory = addToInventory(ag.inventory, "stones", -2)])
      [] action = "Fell Tree" ->
            Effected(removeAdjacent(st, ag, "tree"),
                     [ag EXCEPT !.inventory = addToInventory(ag.inventory, "logs", 1)])
      [] action = "Make Axe" ->
            Effected(st, [ag EXCEPT !.holding = "axe",
                                    !.inventory = addToInventory(
                                        addToInventory(ag.inventory, "stones", -1),
                                        "branches", -1)])
      [] action = "Gather Stone" ->
            Effected(removeAdjacent(st, ag, "stone"),
                     [ag EXCEPT !.inventory = addToInventory(ag.inventory, "stones", 1)])
      [] action = "Gather Branch" ->
            Effected(removeAdjacent(st, ag, "branch"),
                     [ag EXCEPT !.inventory = addToInventory(ag.inventory, "branches", 1)])
      [] action = "Drink from Well" ->
            Effected(st, [ag EXCEPT !.thirst = 1000])
      [] action = "Sleep at Shelter" ->
            Effected(st, [ag EXCEPT !.energy = ag.energy + 100])
      [] action = "Eat Cooked Fish" ->
            Effected(st, [ag EXCEPT !.hunger = 1000,
                                    !.inventory = addToInventory(ag.inventory, "cookedFish", -1)])
      [] action = "Cook Fish" ->
            Effected(st, [ag EXCEPT !.inventory = addToInventory(
                                        addToInventory(ag.inventory, "fish", -1),
                                        "cookedFish", 1)])
      [] action = "Light Fire" ->
            Effected(build("fire", st, ag),
                     [ag EXCEPT !.inventory = addToInventory(ag.inventory, "branches", -1)])
      [] action = "Catch Fish" ->
            Effected(st, [ag EXCEPT !.inventory = addToInventory(ag.inventory, "fish", 1)])
      [] action = "Make Rod" ->
            Effected(st, [ag EXCEPT !.holding = "rod"])
      [] action = "Put down equipment" ->
            Effected(st, [ag EXCEPT !.holding = "null"])
      [] action = "Chat" ->
            Effected(st, [ag EXCEPT !.social = ag.social + 200])

\* the cost field: 1, or the distance to the nearest entity of a kind.  No
\* entity has the kind "shelter", so "Sleep at Shelter" costs Infinity.
actionCost(action, st, ag) ==
    CASE action = "Pick up apple" -> entityDistance("apple", st, ag)
      [] action = "Fell Tree" -> entityDistance("tree", st, ag)
      [] action = "Gather Stone" -> entityDistance("stone", st, ag)
      [] action = "Gather Branch" -> entityDistance("branch", st, ag)
      [] action = "Drink from Well" -> entityDistance("well", st, ag)
      [] action = "Sleep at Shelter" -> entityDistance("shelter", st, ag)
      [] OTHER -> 1

(***************************************************************************)
(* Goals.  goalState is the list of the keys of the goal object, in the    *)
(* order of Object.keys; an entry carries the type of its value (typeof)   *)
(* and the value in the field of that type.  The value of the key          *)
(* "inventory" is itself a list of (resource, count) entries.              *)
(***************************************************************************)
Resources == {"logs", "branches", "stones", "apples", "fish", "cookedFish"}

NumberEntry(k, v) == [key |-> k, type |-> "number", num |-> v, bool |-> FALSE,
                      str |-> "", inv |-> <<>>]
BooleanEntry(k, b) == [key |-> k, type |-> "boolean", num |-> 0, bool |-> b,
                       str |-> "", inv |-> <<>>]
StringEntry(k, s) == [key |-> k, type |-> "string", num |-> 0, bool |-> FALSE,
                      str |-> s, inv |-> <<>>]
InventoryEntry(counts) == [key |-> "inventory", type |-> "object", num |-> 0,
                           bool |-> FALSE, str |-> "", inv |-> counts]
Count(k, v) == [key |-> k, value |-> v]

\* agent[key] for the keys compared as numbers; NaN stands for undefined,
\* which compares false and gives NaN in arithmetic
NumberOf(ag, key) ==
    CASE key = "hunger" -> ag.hunger
      [] key = "thirst" -> ag.thirst
      [] key = "energy" -> ag.energy
      [] key = "social" -> ag.social
      [] OTHER -> NaN

\* goalValue == agentValue for a boolean goal value; undefined equals neither
BooleanEquals(ag, key, b) ==
    CASE key = "hasShelter" -> ag.hasShelter = b
      [] key = "alive" -> ag.alive = b
      [] OTHER -> FALSE

\* a distance that only tells a met count from an unmet one
RECURSIVE inventoryDistanceUngraded(_, _, _)
inventoryDistanceUngraded(ag, counts, i) ==
    IF i > Len(counts) THEN 0
    ELSE LET c == counts[i]
             d == IF c.key \in Resources
                  THEN (IF c.value = ag.inventory[c.key] THEN 0 ELSE 1000)
                  ELSE NaN
         IN  Plus(d, inventoryDistanceUngraded(ag, counts, i + 1))

\* a distance that counts only what the agent is short of
RECURSIVE inventoryDistanceShortfall(_, _, _)
inventoryDistanceShortfall(ag, counts, i) ==
    IF i > Len(counts) THEN 0
    ELSE LET c == counts[i]
             d == IF c.key \in Resources
                  THEN 1000 * Max(0, c.value - ag.inventory[c.key])
                  ELSE NaN
         IN  Plus(d, inventoryDistanceShortfall(ag, counts, i + 1))

RECURSIVE inventoryDistance(_, _, _)
inventoryDistance(ag, counts, i) ==
    IF i > Len(counts) THEN 0
    ELSE LET c == counts[i]
             d == IF c.key \in Resources
                  THEN 1000 * Abs(c.value - ag.inventory[c.key])
                  ELSE NaN
         IN  Plus(d, inventoryDistance(ag, counts, i + 1))

\* a goalDistance that adds 0 for a met numeric target and goes on
RECURSIVE goalDistanceSummed(_, _, _, _)
goalDistanceSummed(ag, goalState, i, sum) ==
    IF i > Len(goalState) THEN sum
    ELSE LET e == goalState[i]
             agentValue == NumberOf(ag, e.key)
             term == IF e.key = "inventory" THEN inventoryDistance(ag, e.inv, 1)
                     ELSE IF e.key = "holding"
                     THEN (IF ag.holding = e.str THEN 0 ELSE 1000)
                     ELSE IF e.type = "number"
                     THEN (IF agentValue = NaN THEN NaN
                           ELSE IF agentValue >= e.num THEN 0
                           ELSE Abs(e.num - agentValue))
                     ELSE IF e.type = "boolean"
                     THEN (IF BooleanEquals(ag, e.key, e.bool) THEN 0 ELSE 1000)
                     ELSE 0
         IN  goalDistanceSummed(ag, goalState, i + 1, Plus(sum, term))

\* the loop of goalDistance from key number i on, with the sum so far
RECURSIVE goalDistanceFrom(_, _, _, _)
goalDistanceFrom(ag, goalState, i, sum) ==
    IF i > Len(goalState) THEN sum
    ELSE LET e == goalState[i]
         IN  IF e.key = "inventory"
             THEN goalDistanceFrom(ag, goalState, i + 1,
                                   Plus(sum, inventoryDistance(ag, e.inv, 1)))
             ELSE IF e.key = "holding"
             THEN goalDistanceFrom(ag, goalState, i + 1,
                                   Plus(sum, IF ag.holding = e.str THEN 0 ELSE 1000))
             ELSE IF e.type = "number"
             THEN LET agentValue == NumberOf(ag, e.key)
                  IN  IF agentValue # NaN /\ agentValue >= e.num
                      THEN 0
                      ELSE goalDistanceFrom(ag, goalState, i + 1,
                               Plus(sum, IF agentValue = NaN THEN NaN
                                         ELSE Abs(e.num - agentValue)))
             ELSE IF e.type = "boolean"
             THEN goalDistanceFrom(ag, goalState, i + 1,
                                   Plus(sum, IF BooleanEquals(ag, e.key, e.bool)
                                             THEN 0 ELSE 1000))
             ELSE goalDistanceFrom(ag, goalState, i + 1, sum)

goalDistance(st, ag, goalState) == goalDistanceFrom(ag, goalState, 1, 0)

(***************************************************************************)
(* Solutions: a node is [nextSteps, toPerform, actions]; nextSteps is <<>> *)
(* for null and <<node>> for a link, toPerform is "null" or an action.     *)
(***************************************************************************)
Node(next, perform, acts) == [nextSteps |-> next, toPerform |-> perform, actions |-> acts]

\* a flattening that puts the actions of the linked nodes first
RECURSIVE solutionToActionsLinkFirst(_)
solutionToActionsLinkFirst(sol) ==
    IF sol.nextSteps = <<>> THEN sol.actions
    ELSE solutionToActionsLinkFirst(sol.nextSteps[1]) \o sol.actions

RECURSIVE solutionToActions(_)
solutionToActions(sol) ==
    IF sol.nextSteps = <<>> THEN sol.actions
    ELSE sol.actions \o solutionToActions(sol.nextSteps[1])

\* an applyActions that in strict mode skips the action that cannot be
\* performed and goes on with the rest of the list
RECURSIVE applyFromSkipping(_, _, _, _)
applyFromSkipping(actions, i, current, strict) ==
    IF i > Len(actions) THEN current
    ELSE The({ IF strict /\ canBePerformed(actions[i], c.state, c.agent) # 0
               THEN applyFromSkipping(actions, i + 1, c, strict)
               ELSE applyFromSkipping(actions, i + 1,
                                      effect(actions[i], c.state, c.agent), strict)
               : c \in {current} })

\* an applyActions that stops at the action that cannot be performed
\* whether strict or not
RECURSIVE applyFromChecked(_, _, _, _)
applyFromChecked(actions, i, current, strict) ==
    IF i > Len(actions) THEN current
    ELSE The({ IF canBePerformed(actions[i], c.state, c.agent) # 0
               THEN c
               ELSE applyFromChecked(actions, i + 1,
                                     effect(actions[i], c.state, c.agent), strict)
               : c \in {current} })

RECURSIVE applyFrom(_, _, _, _)
applyFrom(actions, i, current, strict) ==
    IF i > Len(actions) THEN current
    ELSE The({ IF strict /\ canBePerformed(actions[i], c.state, c.agent) # 0
               THEN c
               ELSE applyFrom(actions, i + 1,
                              effect(actions[i], c.state, c.agent), strict)
               : c \in {current} })

applyActions(actions, current, strict) == applyFrom(actions, 1, current, strict)

RECURSIVE sumCosts(_, _, _, _)
sumCosts(actions, i, st, ag) ==
    IF i > Len(actions) THEN 0
    ELSE Plus(actionCost(actions[i], st, ag), sumCosts(actions, i + 1, st, ag))

RECURSIVE cost(_, _, _)
cost(sol, st, ag) ==
    IF sol.nextSteps = <<>> THEN sumCosts(sol.actions, 1, st, ag)
    ELSE Plus(sumCosts(sol.actions, 1, st, ag), cost(sol.nextSteps[1], st, ag))

(***************************************************************************)
(* makePlanBetter(agent, state, goal).                                     *)
(*                                                                         *)
(* solutionQueue is the set of the nodes in the heap.  The heap (the       *)
(* library qheap, built with comparBefore: cost(a) < cost(b)) hands out a  *)
(* node that no other node is before; which of several such nodes it       *)
(* hands out is the library's business and is left open here.  A set loses *)
(* nothing: a node other than the seed determines the node it was derived  *)
(* from and the action that was prepended, so no node is inserted twice.   *)
(***************************************************************************)
\* a test that applies every action whether it can be performed or not
isSolutionLenient(sol) ==
    LET actions == solutionToActions(sol)
        outcome == applyActions(actions, Effected(state, agent), FALSE)
    IN  goalDistance(outcome.state, outcome.agent, goal.goalState) = 0

\* a test that never accepts a node without actions
isSolutionNonEmpty(sol) ==
    LET actions == solutionToActions(sol)
        outcome == applyActions(actions, Effected(state, agent), TRUE)
    IN  /\ actions # <<>>
        /\ goalDistance(outcome.state, outcome.agent, goal.goalState) = 0

isSolution(sol) ==
    LET actions == solutionToActions(sol)
        outcome == applyActions(actions, Effected(state, agent), TRUE)
    IN  goalDistance(outcome.state, outcome.agent, goal.goalState) = 0

comparBefore(a, b) == cost(a, state, agent) < cost(b, state, agent)

\* a queue that hands out any of its nodes
HeadsAny(queue) == queue

\* the nodes shift() may return: those that no node of the queue is before
Heads(queue) ==
    The({ {n \in queue : \A m \in queue : ~(c[m] < c[n])} :
          c \in {[n \in queue |-> cost(n, state, agent)]} })

\* a progress measure that is the distance to the goal for every node
checkGoalAlways(sol, st, ag) == goalDistance(st, ag, goal.goalState)

\* the progress measure of the popped node
check(sol, st, ag) ==
    IF sol.nextSteps = <<>>
    THEN goalDistance(st, ag, goal.goalState)
    ELSE canBePerformed(sol.toPerform, st, ag)

\* the progress measure after the actions of a list, applied from the
\* original (state, agent) whether they can be performed or not
measure(sol, actions) ==
    The({ check(sol, current.state, current.agent) :
          current \in {applyActions(actions, Effected(state, agent), FALSE)} })

\* a loop body whose refinement node links to the node shifted, as it is
candidateLinksPopped(sol, action) ==
    LET newPlan == <<action>> \o sol.actions
    IN  The({ IF DeltaPositive(dist, updatedDistance) /\ updatedDistance = 0
              THEN {Node(<<sol>>, action, <<>>)}
              ELSE IF DeltaPositive(dist, updatedDistance)
              THEN {[sol EXCEPT !.actions = newPlan]}
              ELSE {}
              : dist \in {measure(sol, sol.actions)},
                updatedDistance \in {measure(sol, newPlan)} })

\* a loop body that also keeps the candidate that leaves the measure as it is
candidateNoWorse(sol, action) ==
    LET newPlan == <<action>> \o sol.actions
    IN  The({ IF DeltaPositive(dist, updatedDistance) /\ updatedDistance = 0
              THEN {Node(<<[sol EXCEPT !.actions = newPlan]>>, action, <<>>)}
              ELSE IF DeltaPositive(dist, updatedDistance) \/ dist = updatedDistance
              THEN {[sol EXCEPT !.actions = newPlan]}
              ELSE {}
              : dist \in {measure(sol, sol.actions)},
                updatedDistance \in {measure(sol, newPlan)} })

\* a loop body that keeps a candidate only when it brings the measure to 0
candidateNoPartial(sol, action) ==
    LET newPlan == <<action>> \o sol.actions
    IN  The({ IF DeltaPositive(dist, updatedDistance) /\ updatedDistance = 0
              THEN {Node(<<[sol EXCEPT !.actions = newPlan]>>, action, <<>>)}
              ELSE {}
              : dist \in {measure(sol, sol.actions)},
                updatedDistance \in {measure(sol, newPlan)} })

\* what the loop body inserts for one action of the catalog: a set with
\* the new node, or the empty set when the candidate is dropped
candidate(sol, action) ==
    LET newPlan == <<action>> \o sol.actions
    IN  The({ IF DeltaPositive(dist, updatedDistance) /\ updatedDistance = 0
              THEN {Node(<<[sol EXCEPT !.actions = newPlan]>>, action, <<>>)}
              ELSE IF DeltaPositive(dist, updatedDistance)
              THEN {[sol EXCEPT !.actions = newPlan]}
              ELSE {}
              : dist \in {measure(sol, sol.actions)},
                updatedDistance \in {measure(sol, newPlan)} })

expand(sol) == UNION {candidate(sol, AllActions[i]) : i \in 1 .. Len(AllActions)}

Seed == Node(<<>>, "null", <<>>)

Running == [status |-> "running", plan |-> <<>>]
Returned(plan) == [status |-> "plan", plan |-> plan]
\* a failure reported as a plan without actions
ReturnedEmptyPlan == [status |-> "plan", plan |-> <<>>]
ReturnedNull == [status |-> "null", plan |-> <<>>]

\* shift() gives a node that is a solution: the loop ends, the plan is returned
ShiftSolution ==
    /\ pc = "search"
    /\ \E n \in Heads(solutionQueue) :
        /\ isSolution(n)
        /\ solutionQueue' = solutionQueue \ {n}
        /\ solution' = <<n>>
        /\ result' = Returned(solutionToActions(n))
    /\ pc' = "done"
    /\ UNCHANGED <<agent, state, goal>>
    /\ UNCHANGED tickVars

\* a loop body that reads the first node and leaves it in the queue
ShiftExpandKeepsNode ==
    /\ pc = "search"
    /\ \E n \in Heads(solutionQueue) :
        /\ ~isSolution(n)
        /\ solutionQueue' = solutionQueue \cup expand(n)
        /\ solution' = <<n>>
    /\ UNCHANGED <<agent, state, goal, pc, result>>
    /\ UNCHANGED tickVars

\* a loop body whose look-ahead writes into the agent and state it was given
ShiftExpandInPlace ==
    /\ pc = "search"
    /\ \E n \in Heads(solutionQueue) :
        /\ ~isSolution(n)
        /\ solutionQueue' = (solutionQueue \ {n}) \cup expand(n)
        /\ solution' = <<n>>
        /\ \E i \in 1 .. Len(AllActions) :
            LET current == applyActions(<<AllActions[i]>> \o n.actions,
                                        Effected(state, agent), FALSE)
            IN  agent' = current.agent /\ state' = current.state
    /\ UNCHANGED <<goal, pc, result>>
    /\ UNCHANGED tickVars

\* a loop body that clears the toPerform of the nodes that wait in the queue
ShiftExpandClearsQueued ==
    /\ pc = "search"
    /\ \E n \in Heads(solutionQueue) :
        /\ ~isSolution(n)
        /\ solutionQueue' = {[m EXCEPT !.toPerform = "null"] :
                                 m \in solutionQueue \ {n}} \cup expand(n)
        /\ solution' = <<n>>
    /\ UNCHANGED <<agent, state, goal, pc, result>>
    /\ UNCHANGED tickVars

\* shift() gives a node that is no solution: one pass of the loop body
ShiftExpand ==
    /\ pc = "search"
    /\ \E n \in Heads(solutionQueue) :
        /\ ~isSolution(n)
        /\ solutionQueue' = (solutionQueue \ {n}) \cup expand(n)
        /\ solution' = <<n>>
    /\ UNCHANGED <<agent, state, goal, pc, result>>
    /\ UNCHANGED tickVars

\* shift() gives undefined: the loop ends and null is returned
ShiftEmpty ==
    /\ pc = "search"
    /\ solutionQueue = {}
    /\ solution' = <<>>
    /\ result' = ReturnedNull
    /\ pc' = "done"
    /\ UNCHANGED <<agent, state, goal, solutionQueue>>
    /\ UNCHANGED tickVars

Next == ShiftSolution \/ ShiftExpand \/ ShiftEmpty

(***************************************************************************)
(* The inputs of a call.                                                   *)
(***************************************************************************)
EmptyInventory == [r \in Resources |-> 0]

\* the agent stands in the second row and the second column
Home == Pos(1, 1)

\* an agent as in initialState (energy 90), with the given differences
MakeAgent(id, inventory, held, sheltered, energy, hunger) ==
    [id |-> id, position |-> Home, alive |-> TRUE,
     hunger |-> hunger, thirst |-> 500, energy |-> energy, social |-> 500,
     goal |-> [name |-> "Eat", goalState |-> <<NumberEntry("hunger", 1000)>>],
     plan |-> <<>>, holding |-> held, hasShelter |-> sheltered,
     shelterLocation |-> IF sheltered THEN <<Pos(0, 1)>> ELSE <<>>,
     inventory |-> inventory]

\* where a kind of entity lies: next to the agent, or farther than one step
NearCell(kind) ==
    CASE kind = "stone" -> Pos(0, 1)
      [] kind = "branch" -> Pos(1, 0)
      [] kind = "tree" -> Pos(1, 2)
      [] kind = "apple" -> Pos(2, 1)
      [] OTHER -> Pos(2, 2)

FarCell(kind) ==
    CASE kind = "stone" -> Pos(0, 3)
      [] kind = "branch" -> Pos(1, 3)
      [] kind = "tree" -> Pos(2, 3)
      [] kind = "apple" -> Pos(0, 0)
      [] OTHER -> Pos(2, 2)

NaturalKinds == {"apple", "tree", "branch", "stone"}

\* a grid with every natural kind far away, except that the kind `lacking`
\* is absent and the kind `near` lies next to the agent (and far away too
\* only if `spare`); `built` is an entity (or "null") standing two steps away
MakeBackground(lacking, near, spare, built) ==
    [p \in Cells |->
        IF \E k \in NaturalKinds : k # lacking /\ k = near /\ p = NearCell(k)
        THEN near
        ELSE IF \E k \in NaturalKinds :
                    k # lacking /\ (k # near \/ spare) /\ p = FarCell(k)
        THEN CHOOSE k \in NaturalKinds : p = FarCell(k)
        ELSE IF p = Pos(2, 2) THEN built
        ELSE "null"]

\* the grid with a branch next to the agent and its only apple in the first
\* row, `column` columns from the left
MakeOrchard(column) ==
    [MakeBackground("apple", "branch", FALSE, "null") EXCEPT ![Pos(0, column)] = "apple"]

MakeState(lacking, near, spare, built, ag, others) ==
    [timeOfDay |-> 80,
     agents |-> IF others = 0 THEN <<ag>>
                ELSE <<ag, MakeAgent(2, EmptyInventory, "null", FALSE, 900, 500)>>,
     background |-> MakeBackground(lacking, near, spare, built),
     life |-> [p \in Cells |->
                 IF MakeBackground(lacking, near, spare, built)[p] = "fire"
                 THEN FireLife ELSE 0]]

\* inventories with up to MaxInitCount units of one resource
InitInventories ==
    {[EmptyInventory EXCEPT ![r] = c] : r \in Resources, c \in 0 .. MaxInitCount}

\* the goals findGoal can select
LoopGoals ==
    { <<NumberEntry("energy", 1000)>>, <<NumberEntry("thirst", 1000)>>,
      <<NumberEntry("hunger", 800)>>, <<NumberEntry("hunger", 1000)>>,
      <<NumberEntry("social", 800)>>, <<BooleanEntry("hasShelter", TRUE)>> }

\* goals on one resource, on the held equipment and on fields that no
\* action sets or that the agent does not have
OtherGoals ==
    {<<InventoryEntry(<<Count(r, n)>>)>> : r \in Resources, n \in 0 .. MaxGoalCount}
    \cup {<<StringEntry("holding", h)>> : h \in {"axe", "rod", "null", "sword"}}
    \cup { <<BooleanEntry("hasShelter", FALSE)>>, <<BooleanEntry("alive", FALSE)>>,
           <<NumberEntry("wealth", 1000)>>,
           <<InventoryEntry(<<Count("gold", 1)>>)>> }

\* goals with two targets or more; in the last two a target on hunger that
\* every agent of InitInputs meets comes after, or between, targets on the
\* shelter, the held item and the stones
PairGoals ==
    { <<NumberEntry("hunger", 1000), BooleanEntry("hasShelter", TRUE)>>,
      <<BooleanEntry("hasShelter", TRUE), NumberEntry("hunger", 1000)>>,
      <<InventoryEntry(<<Count("stones", 1), Count("branches", 1)>>)>>,
      <<InventoryEntry(<<Count("branches", 1), Count("fish", 1)>>)>>,
      <<StringEntry("holding", "rod"), InventoryEntry(<<Count("fish", 1)>>)>>,
      <<BooleanEntry("hasShelter", TRUE), StringEntry("holding", "axe"),
        InventoryEntry(<<Count("stones", 2)>>), NumberEntry("hunger", 300)>>,
      <<BooleanEntry("hasShelter", TRUE), NumberEntry("hunger", 300),
        StringEntry("holding", "axe"), InventoryEntry(<<Count("stones", 2)>>)>> }

Goals == LoopGoals \cup OtherGoals \cup PairGoals

Kinds == NaturalKinds \cup {"null"}

\* what the agent holds, whether it has a shelter, and its energy
AgentConditions ==
    { <<"null", FALSE, 900>>, <<"axe", FALSE, 900>>, <<"rod", FALSE, 900>>,
      <<"null", TRUE, 900>>, <<"null", TRUE, 1000>> }

\* Either the agent varies in a grid that has every natural kind far away,
\* or the grid varies around an agent that owns nothing: a kind is absent
\* and another lies next to the agent, or there is a well, a fire or a
\* second agent, or the only apple lies some way off, or the agent stands
\* in the top row.
InitInputs ==
    \/ /\ \E inv \in InitInventories, c \in AgentConditions :
            agent = MakeAgent(1, inv, c[1], c[2], c[3], 500)
       /\ state = MakeState("null", "null", FALSE, "null", agent, 0)
    \/ /\ agent = MakeAgent(1, EmptyInventory, "null", FALSE, 900, 500)
       /\ \E lacking \in Kinds, near \in Kinds, spare \in BOOLEAN :
            state = MakeState(lacking, near, spare, "null", agent, 0)
    \/ /\ agent = MakeAgent(1, EmptyInventory, "null", FALSE, 900, 500)
       /\ \E built \in {"well", "fire"}, others \in 0 .. 1 :
            state = MakeState("null", "null", FALSE, built, agent, others)
    \/ /\ agent = MakeAgent(1, EmptyInventory, "null", FALSE, 900, 500)
       /\ \E column \in 4 .. (width - 1) :
            state = [MakeState("null", "null", FALSE, "null", agent, 0)
                       EXCEPT !.background = MakeOrchard(column)]
    \/ /\ agent = [MakeAgent(1, EmptyInventory, "null", FALSE, 900, 500)
                     EXCEPT !.position = Pos(0, 1)]
       /\ \E built \in {"null", "fire"} :
            state = MakeState("null", "null", FALSE, built, agent, 0)

Init ==
    /\ InitInputs
    /\ \E g \in Goals : goal = [name |-> "Goal", goalState |-> g]
    /\ solutionQueue = {Seed}
    /\ solution = <<>>
    /\ pc = "search"
    /\ result = Running
    /\ world = state /\ snapshot = state
    /\ cur = 0 /\ ticks = 0 /\ tpc = "off" /\ did = "off"

Spec == Init /\ [][Next]_vars

FairSpec == Spec /\ WF_vars(Next)

(***************************************************************************)
(* The tick loop: update(state) folds produceUpdate over the agents.       *)
(* Times are in tenths of an hour, drives in tenths.                       *)
(***************************************************************************)
dayTime(timeOfDay) == timeOfDay > 70 /\ timeOfDay < 200

\* a test that wants a numeric target exceeded
satisfiedByExceeding(ag, e) ==
    IF NumberOf(ag, e.key) # NaN
    THEN e.type = "number" /\ NumberOf(ag, e.key) > e.num
    ELSE IF e.key \in {"hasShelter", "alive"}
    THEN e.type = "boolean" /\ BooleanEquals(ag, e.key, e.bool)
    ELSE IF e.key = "holding"
    THEN e.type = "string" /\ ag.holding = e.str
    ELSE FALSE

\* what goalSatisfied computes for one key of the goal
satisfiedBy(ag, e) ==
    IF NumberOf(ag, e.key) # NaN
    THEN e.type = "number" /\ NumberOf(ag, e.key) >= e.num
    ELSE IF e.key \in {"hasShelter", "alive"}
    THEN e.type = "boolean" /\ BooleanEquals(ag, e.key, e.bool)
    ELSE IF e.key = "holding"
    THEN e.type = "string" /\ ag.holding = e.str
    ELSE FALSE

\* goalSatisfied(agent, goal): every key overwrites the verdict of the key
\* before it
goalSatisfied(ag, g) ==
    IF g.goalState = <<>> THEN TRUE
    ELSE satisfiedBy(ag, g.goalState[Len(g.goalState)])

findGoal(ag) ==
    IF ag.energy < 600
    THEN [name |-> "Sleep", goalState |-> <<NumberEntry("energy", 1000)>>]
    ELSE IF ag.thirst < 700
    THEN [name |-> "Drink", goalState |-> <<NumberEntry("thirst", 1000)>>]
    ELSE IF ag.hunger < 500
    THEN [name |-> "Eat", goalState |-> <<NumberEntry("hunger", 800)>>]
    ELSE IF ~ag.hasShelter
    THEN [name |-> "Build Shelter", goalState |-> <<BooleanEntry("hasShelter", TRUE)>>]
    ELSE IF ag.social < 600
    THEN [name |-> "Talk", goalState |-> <<NumberEntry("social", 800)>>]
    ELSE [name |-> "Eat", goalState |-> <<NumberEntry("hunger", 1000)>>]

sign(n) == IF n < 0 THEN -1 ELSE IF n > 0 THEN 1 ELSE 0

\* a step that leads away from b
moveTowardsReversed(a, b) == Pos(sign(a.row - b.row), sign(a.column - b.column))

moveTowards(a, b) == Pos(sign(b.row - a.row), sign(b.column - a.column))

add(a, b) == Pos(a.row + b.row, a.column + b.column)

\* the first of the four coast tiles in line with the agent, nearest first
nearestCoastTile(st, ag) ==
    LET possibilities == << Pos(0, ag.position.column),
                            Pos(height - 1, ag.position.column),
                            Pos(ag.position.row, 0),
                            Pos(ag.position.row, width - 1) >>
        i == CHOOSE i \in 1 .. 4 :
                 \A j \in 1 .. 4 :
                     \/ distance(possibilities[i], ag.position)
                          < distance(possibilities[j], ag.position)
                     \/ /\ distance(possibilities[i], ag.position)
                            = distance(possibilities[j], ag.position)
                        /\ i <= j
    IN  possibilities[i]

\* the position of the nearest agent with another id, <<>> when there is none
findOtherAgent(st, ag) ==
    LET others == {i \in 1 .. Len(st.agents) : st.agents[i].id # ag.id}
    IN  IF others = {} THEN <<>>
        ELSE LET i == CHOOSE i \in others :
                          \A j \in others :
                              \/ distance(st.agents[i].position, ag.position)
                                   < distance(st.agents[j].position, ag.position)
                              \/ /\ distance(st.agents[i].position, ag.position)
                                     = distance(st.agents[j].position, ag.position)
                                 /\ i <= j
             IN  <<st.agents[i].position>>

requiresInRange(action) ==
    action \in {"Pick up apple", "Fell Tree", "Gather Stone", "Gather Branch",
                "Drink from Well", "Sleep at Shelter", "Cook Fish", "Catch Fish",
                "Chat"}

\* range || 0
range(action) ==
    IF action \in {"Pick up apple", "Fell Tree", "Gather Stone", "Gather Branch",
                   "Drink from Well", "Cook Fish", "Chat"}
    THEN 1 ELSE 0

\* findTarget of an action that requires range: <<>> for null
findTarget(action, st, ag) ==
    CASE action = "Pick up apple" -> find("apple", st, ag)
      [] action = "Fell Tree" -> find("tree", st, ag)
      [] action = "Gather Stone" -> find("stone", st, ag)
      [] action = "Gather Branch" -> find("branch", st, ag)
      [] action = "Drink from Well" -> find("well", st, ag)
      [] action = "Cook Fish" -> find("fire", st, ag)
      [] action = "Sleep at Shelter" -> ag.shelterLocation
      [] action = "Catch Fish" -> <<nearestCoastTile(st, ag)>>
      [] action = "Chat" -> findOtherAgent(st, ag)
      [] OTHER -> <<Pos(0, 0)>>

\* the agent with agentUpdate spread over it
withAgentUpdate(st, ag) ==
    [ag EXCEPT !.hunger = @ - 2,
               !.thirst = @ - 5,
               !.energy = @ - (IF dayTime(st.timeOfDay) THEN 2 ELSE 5),
               !.social = @ - 2]

\* the agent after `agent.goal = goal`: the goal it keeps or is given
withGoal(ag) ==
    IF goalSatisfied(ag, ag.goal) THEN [ag EXCEPT !.goal = findGoal(ag)] ELSE ag

\* a test that lets an agent live with a drive at 0
exhaustedBelowZero(ag) ==
    ag.thirst < 0 \/ ag.hunger < 0 \/ ag.energy < 0 \/ ag.social < 0

exhausted(ag) ==
    ag.thirst <= 0 \/ ag.hunger <= 0 \/ ag.energy <= 0 \/ ag.social <= 0

\* which way produceUpdate leaves for an agent with a plan
outcomeKind(st, ag) ==
    LET nextAction == Head(ag.plan)
        nextDestination == findTarget(nextAction, st, ag)
    IN  IF requiresInRange(nextAction) /\ nextDestination = <<>>
        THEN "no target"
        ELSE IF /\ requiresInRange(nextAction)
                /\ distance(ag.position, nextDestination[1]) > range(nextAction)
        THEN "move"
        ELSE IF canBePerformed(nextAction, st, ag) = 0
        THEN "perform"
        ELSE "discard"

\* a produceUpdate that performs the head of the plan without asking
\* whether it can be performed
actOnPlanUnchecked(st, agent0) ==
    LET ag == withGoal(agent0)
        nextAction == Head(ag.plan)
        kind == outcomeKind(st, ag)
    IN  IF kind = "move"
        THEN Effected(st, [withAgentUpdate(st, ag) EXCEPT !.position =
                              add(ag.position,
                                  moveTowards(ag.position,
                                              findTarget(nextAction, st, ag)[1]))])
        ELSE LET actionEffect == effect(nextAction, st, ag)
             IN  Effected(actionEffect.state,
                          [actionEffect.agent EXCEPT !.plan = Tail(ag.plan)])

\* a produceUpdate that keeps the plan whose head cannot be performed
actOnPlanKeepsPlan(st, agent0) ==
    LET ag == withGoal(agent0)
        nextAction == Head(ag.plan)
        kind == outcomeKind(st, ag)
    IN  IF kind = "move"
        THEN Effected(st, [withAgentUpdate(st, ag) EXCEPT !.position =
                              add(ag.position,
                                  moveTowards(ag.position,
                                              findTarget(nextAction, st, ag)[1]))])
        ELSE IF kind = "perform"
        THEN LET actionEffect == effect(nextAction, st, ag)
             IN  Effected(actionEffect.state,
                          [actionEffect.agent EXCEPT !.plan = Tail(ag.plan)])
        ELSE Effected(st, withAgentUpdate(st, ag))

\* produceUpdate(state, agent) for a living agent that has a plan
actOnPlan(st, agent0) ==
    LET ag == withGoal(agent0)
        nextAction == Head(ag.plan)
        kind == outcomeKind(st, ag)
    IN  IF kind = "move"
        THEN Effected(st, [withAgentUpdate(st, ag) EXCEPT !.position =
                              add(ag.position,
                                  moveTowards(ag.position,
                                              findTarget(nextAction, st, ag)[1]))])
        ELSE IF kind = "perform"
        THEN LET actionEffect == effect(nextAction, st, ag)
             IN  Effected(actionEffect.state,
                          [actionEffect.agent EXCEPT !.plan = Tail(ag.plan)])
        ELSE Effected(st, [withAgentUpdate(st, ag) EXCEPT !.plan = <<>>])

\* the fold step of update: the State of the update with the agent of that
\* id replaced
merged(currentState, upd) ==
    [upd.state EXCEPT !.agents =
        [i \in 1 .. Len(currentState.agents) |->
            IF currentState.agents[i].id = upd.agent.id
            THEN upd.agent ELSE currentState.agents[i]]]

\* the fires burn down by one; a fire at the end of its life leaves the grid
burnDown(st) ==
    [st EXCEPT !.background =
        [p \in Cells |->
            IF st.background[p] = "fire" /\ st.life[p] - 1 <= 0
            THEN "null" ELSE st.background[p]],
               !.life =
        [p \in Cells |->
            IF st.background[p] = "fire" /\ st.life[p] - 1 > 0
            THEN st.life[p] - 1
            ELSE IF st.background[p] = "fire" THEN 0 ELSE st.life[p]]]

MaxTicks == 4

\* update begins: the clock advances, the fold starts with the first agent
BeginTick ==
    /\ tpc = "idle"
    /\ ticks < MaxTicks
    /\ world' = [world EXCEPT !.timeOfDay = (@ + 1) % 240]
    /\ snapshot' = world'
    /\ cur' = 1
    /\ tpc' = "agents"
    /\ did' = "begin"
    /\ UNCHANGED <<agent, state, goal, solutionQueue, solution, pc, result, ticks>>

\* produceUpdate of an agent that is not alive: nothing changes
UpdateDead ==
    /\ tpc = "agents"
    /\ cur <= Len(world.agents)
    /\ ~world.agents[cur].alive
    /\ cur' = cur + 1
    /\ did' = "dead"
    /\ UNCHANGED <<agent, state, goal, solutionQueue, solution, pc, result,
                   world, tpc, ticks, snapshot>>

\* produceUpdate of a living agent with a drive at or below 0: it dies
UpdateExhausted ==
    /\ tpc = "agents"
    /\ cur <= Len(world.agents)
    /\ world.agents[cur].alive
    /\ exhausted(world.agents[cur])
    /\ world' = merged(world, Effected(world,
                          [world.agents[cur] EXCEPT !.alive = FALSE]))
    /\ cur' = cur + 1
    /\ did' = "died"
    /\ UNCHANGED <<agent, state, goal, solutionQueue, solution, pc, result,
                   tpc, ticks, snapshot>>

\* an update in which the agent acts on the State as the tick began with it
UpdateActingOnSnapshot ==
    /\ tpc = "agents"
    /\ cur <= Len(world.agents)
    /\ world.agents[cur].alive
    /\ ~exhausted(world.agents[cur])
    /\ world.agents[cur].plan # <<>>
    /\ world' = merged(world, actOnPlan(snapshot, world.agents[cur]))
    /\ cur' = cur + 1
    /\ did' = outcomeKind(snapshot, withGoal(world.agents[cur]))
    /\ UNCHANGED <<agent, state, goal, solutionQueue, solution, pc, result,
                   tpc, ticks, snapshot>>

\* produceUpdate of a living agent with a plan, from entry to return
UpdateActing ==
    /\ tpc = "agents"
    /\ cur <= Len(world.agents)
    /\ world.agents[cur].alive
    /\ ~exhausted(world.agents[cur])
    /\ world.agents[cur].plan # <<>>
    /\ world' = merged(world, actOnPlan(world, world.agents[cur]))
    /\ cur' = cur + 1
    /\ did' = outcomeKind(world, withGoal(world.agents[cur]))
    /\ UNCHANGED <<agent, state, goal, solutionQueue, solution, pc, result,
                   tpc, ticks, snapshot>>

\* a produceUpdate that plans whether or not the agent has a plan
CallPlannerAlways ==
    /\ tpc = "agents"
    /\ cur <= Len(world.agents)
    /\ world.agents[cur].alive
    /\ ~exhausted(world.agents[cur])
    /\ agent' = withGoal(world.agents[cur])
    /\ state' = world
    /\ goal' = agent'.goal
    /\ solutionQueue' = {Seed}
    /\ solution' = <<>>
    /\ pc' = "search"
    /\ result' = Running
    /\ tpc' = "first call"
    /\ did' = "call"
    /\ UNCHANGED <<world, cur, ticks, snapshot>>

\* produceUpdate of a living agent without a plan, up to the first call of
\* makePlanBetter(agent, state, goal)
CallPlanner ==
    /\ tpc = "agents"
    /\ cur <= Len(world.agents)
    /\ world.agents[cur].alive
    /\ ~exhausted(world.agents[cur])
    /\ world.agents[cur].plan = <<>>
    /\ agent' = withGoal(world.agents[cur])
    /\ state' = world
    /\ goal' = agent'.goal
    /\ solutionQueue' = {Seed}
    /\ solution' = <<>>
    /\ pc' = "search"
    /\ result' = Running
    /\ tpc' = "first call"
    /\ did' = "call"
    /\ UNCHANGED <<world, cur, ticks, snapshot>>

\* makePlanBetter(...) || []
newPlan == IF result.status = "plan" THEN result.plan ELSE <<>>

\* the first call gave no action: findGoal again, and the second call
PlanAgain ==
    /\ tpc = "first call"
    /\ pc = "done"
    /\ Len(newPlan) = 0
    /\ agent' = [agent EXCEPT !.goal = findGoal(agent)]
    /\ goal' = agent'.goal
    /\ solutionQueue' = {Seed}
    /\ solution' = <<>>
    /\ pc' = "search"
    /\ result' = Running
    /\ tpc' = "second call"
    /\ did' = "call again"
    /\ UNCHANGED <<state, world, cur, ticks, snapshot>>

\* the plan is stored and produceUpdate returns: the old plan had no head
PlanStored ==
    /\ pc = "done"
    /\ \/ tpc = "first call" /\ Len(newPlan) # 0
       \/ tpc = "second call"
    /\ world' = merged(world, Effected(state,
                          [withAgentUpdate(state, agent) EXCEPT !.plan = newPlan]))
    /\ cur' = cur + 1
    /\ tpc' = "agents"
    /\ did' = "planned"
    /\ UNCHANGED <<agent, state, goal, solutionQueue, solution, pc, result,
                   ticks, snapshot>>

\* the fold is over: update ends with the fires burning down
EndTick ==
    /\ tpc = "agents"
    /\ cur > Len(world.agents)
    /\ world' = burnDown(world)
    /\ ticks' = ticks + 1
    /\ tpc' = "idle"
    /\ did' = "end"
    /\ UNCHANGED <<agent, state, goal, solutionQueue, solution, pc, result,
                   cur, snapshot>>

TickNext ==
    \/ BeginTick \/ UpdateDead \/ UpdateExhausted \/ UpdateActing
    \/ CallPlanner \/ ShiftSolution \/ ShiftExpand \/ ShiftEmpty
    \/ PlanAgain \/ PlanStored \/ EndTick

\* a second agent, next to the apple and the tree that lie next to the first
Neighbour(thirst, hunger) ==
    [MakeAgent(2, EmptyInventory, "null", FALSE, 900, hunger)
        EXCEPT !.position = Pos(2, 2), !.thirst = thirst]

\* an agent in the top row of the grid that has felled two trees, has just
\* eaten, and is about to tire
Settler ==
    [MakeAgent(1, [EmptyInventory EXCEPT !["logs"] = 2], "axe", FALSE, 601, 1000)
        EXCEPT !.position = Pos(0, 1), !.thirst = 900]

\* The loop starts from a State as initialState gives it: every agent has
\* the goal Eat and no plan.  One or two agents, an apple next to them or
\* not, by day or near midnight; the second agent may be about to die of
\* thirst, or be fed and thirsty in a world without a stone for a well; or
\* the only agent is the Settler.
TickInit ==
    /\ \E near \in {"apple", "null"}, spare \in BOOLEAN, hunger \in {500, 1000},
          timeOfDay \in {80, 238}, others \in 0 .. 4 :
         LET first == IF others = 4 THEN Settler
                      ELSE MakeAgent(1, EmptyInventory, "null", FALSE, 900, hunger)
             grid == MakeState(IF others = 3 THEN "stone" ELSE "null",
                               near, spare, "null", first, 0)
         IN  world = [grid EXCEPT
                        !.timeOfDay = timeOfDay,
                        !.agents = IF others \in {0, 4} THEN <<first>>
                                   ELSE IF others = 1
                                   THEN <<first, Neighbour(500, 500)>>
                                   ELSE IF others = 2
                                   THEN <<first, Neighbour(5, 500)>>
                                   ELSE <<first, Neighbour(500, 1000)>>]
    /\ snapshot = world
    /\ cur = 0 /\ ticks = 0 /\ tpc = "idle" /\ did = "start"
    /\ agent = world.agents[1]
    /\ state = world
    /\ goal = agent.goal
    /\ solutionQueue = {}
    /\ solution = <<>>
    /\ pc = "done"
    /\ result = Running

TickSpec == TickInit /\ [][TickNext]_vars

(***************************************************************************)
(* Properties of a call.                                                   *)
(***************************************************************************)
Original == Effected(state, agent)

\* the (state, agent) before the action at index i of a plan, every action
\* before it applied
Before(plan, i) == applyActions(SubSeq(plan, 1, i - 1), Original, FALSE)

StrictOutcome(plan) == applyActions(plan, Original, TRUE)

Satisfies(plan) ==
    LET outcome == StrictOutcome(plan)
    IN  goalDistance(outcome.state, outcome.agent, goal.goalState) = 0

InitialDistance == goalDistance(state, agent, goal.goalState)

\* C1: a returned plan, applied strictly from the original (state, agent),
\* ends with an agent at goal distance exactly 0.
C1_PlanReachesGoal ==
    result.status = "plan" =>
        goalDistance(StrictOutcome(result.plan).state,
                     StrictOutcome(result.plan).agent, goal.goalState) = 0

C1_Witness ==
    /\ result.status = "plan"
    /\ Len(result.plan) >= 6
    /\ InitialDistance > 0

\* C2: every action of a returned plan can be performed (canBePerformed is
\* 0) in the (state, agent) the actions before it lead to.
C2_EveryActionPerformable ==
    result.status = "plan" =>
        \A i \in 1 .. Len(result.plan) :
            canBePerformed(result.plan[i], Before(result.plan, i).state,
                           Before(result.plan, i).agent) = 0

\* C3: when the goal distance of the original (state, agent) is 0, the
\* call returns the empty plan and the only node ever taken from the queue
\* is the seed, which is not expanded.
C3_SatisfiedGoalEmptyPlan ==
    InitialDistance = 0 =>
        /\ solutionQueue \subseteq {Seed}
        /\ pc = "search" => solution = <<>> /\ solutionQueue = {Seed}
        /\ pc = "done" => /\ result = Returned(<<>>)
                          /\ solution = <<Seed>>
                          /\ solutionQueue = {}

C3_Witness ==
    /\ InitialDistance = 0
    /\ pc = "done"
    /\ result.status = "plan"
    /\ Len(result.plan) = 0
    /\ Len(goal.goalState) = 2

\* no action of the catalog, applied to the original (state, agent), gives
\* a goal distance below the original one
NoActionReduces ==
    \A a \in ActionNames :
        ~DeltaPositive(InitialDistance,
                       goalDistance(effect(a, state, agent).state,
                                    effect(a, state, agent).agent, goal.goalState))

\* C4 as stated: when no action of the catalog reduces the goal distance of
\* the original (state, agent), the call returns null.
C4_NoProgressReturnsNull ==
    (NoActionReduces /\ pc = "done") => result.status = "null"

\* C4 amended: when the goal distance of the original (state, agent) is not
\* 0 and no action of the catalog reduces it, the seed is the only node
\* ever in the queue, the queue is empty once it is popped, and the call
\* returns null.
C4_UnmetNoProgressReturnsNull ==
    (NoActionReduces /\ InitialDistance # 0) =>
        /\ solutionQueue \subseteq {Seed}
        /\ solution \in {<<>>, <<Seed>>}
        /\ solution = <<Seed>> => solutionQueue = {}
        /\ pc = "done" => result.status = "null" /\ solutionQueue = {}

C4_Witness ==
    /\ NoActionReduces
    /\ InitialDistance # 0
    /\ pc = "done"
    /\ result.status = "null"
    /\ solutionQueue = {}

\* C5: every call ends: the loop stops, with a plan or with null.
C5_Terminates == <>(pc = "done")

\* a call that ended with null after a search that did enqueue nodes
C5_Witness ==
    /\ pc = "done"
    /\ result.status = "null"
    /\ expand(Seed) # {}

(***************************************************************************)
(* Cost and redundancy of a returned plan.                                 *)
(***************************************************************************)
MaxAltLen == 3

PlanCost(plan) == sumCosts(plan, 1, state, agent)

\* the outcomes of the action sequences of at most k actions in which every
\* action can be performed, each with the cost of its sequence
RECURSIVE Alternatives(_)
Alternatives(k) ==
    IF k = 0 THEN {[current |-> Original, cost |-> 0]}
    ELSE The({ shorter \cup UNION {
                 { [current |-> effect(a, x.current.state, x.current.agent),
                    cost |-> Plus(x.cost, actionCost(a, state, agent))] :
                   a \in {b \in ActionNames :
                            canBePerformed(b, x.current.state, x.current.agent) = 0} }
                 : x \in shorter }
               : shorter \in {Alternatives(k - 1)} })

\* C6: no sequence of actions that reaches the goal when applied strictly
\* from the original (state, agent) costs less than the returned plan
\* (sequences of at most MaxAltLen actions, each of which can be performed).
C6_PlanIsCheapest ==
    result.status = "plan" =>
        \A x \in Alternatives(MaxAltLen) :
            goalDistance(x.current.state, x.current.agent, goal.goalState) = 0
                => PlanCost(result.plan) <= x.cost

Without(plan, i) == SubSeq(plan, 1, i - 1) \o SubSeq(plan, i + 1, Len(plan))

\* C7: no action of a returned plan is redundant: the plan with the action
\* at any one position removed does not reach the goal.
C7_NoRedundantAction ==
    result.status = "plan" =>
        \A i \in 1 .. Len(result.plan) : ~Satisfies(Without(result.plan, i))

\* C9: the caller's agent and world state are the same after every step of
\* the call as before it.
C9_InputsUnchanged == [][agent' = agent /\ state' = state]_vars

\* a plan was found by look-ahead that builds a house and a shelter; the
\* caller's grid has no house and the caller's agent no shelter
C9_Witness ==
    /\ result.status = "plan"
    /\ \E i \in 1 .. Len(result.plan) : result.plan[i] = "Build Shelter"
    /\ EntitiesOfKind(state, "house") = {}
    /\ ~agent.hasShelter
    /\ agent.inventory = EmptyInventory

RECURSIVE Repeat(_, _)
Repeat(a, n) == IF n = 0 THEN <<>> ELSE <<a>> \o Repeat(a, n - 1)

\* a stone exists before each of the n gathers
StoneBeforeEveryGather(n) ==
    \A k \in 0 .. (n - 1) :
        entityExists("stone",
                     applyActions(Repeat("Gather Stone", k), Original, FALSE).state) = 0

\* C10: for an agent with no stones and the goal inventory {stones: n},
\* n >= 1, in a grid that has a stone before each gather, the call returns
\* n times "Gather Stone" and no other action.
C10_GathersExactlyN ==
    \A n \in 1 .. MaxGoalCount :
        ( /\ goal.goalState = <<InventoryEntry(<<Count("stones", n)>>)>>
          /\ agent.inventory.stones = 0
          /\ StoneBeforeEveryGather(n)
          /\ pc = "done" )
        => result = Returned(Repeat("Gather Stone", n))

\* two stones gathered where the first gather takes the stone next to the
\* agent and another stone remains
C10_Witness ==
    /\ goal.goalState = <<InventoryEntry(<<Count("stones", 2)>>)>>
    /\ agent.inventory.stones = 0
    /\ state.background[NearCell("stone")] = "stone"
    /\ pc = "done"
    /\ result = Returned(<<"Gather Stone", "Gather Stone">>)

(***************************************************************************)
(* The plans of the planning tests.                                        *)
(***************************************************************************)
\* the agent of the tests: energy 90, no shelter, nothing owned or held
NewcomerAgent ==
    /\ agent.energy = 900
    /\ ~agent.hasShelter
    /\ agent.inventory = EmptyInventory
    /\ agent.holding = "null"

HasShelterGoal == goal.goalState = <<BooleanEntry("hasShelter", TRUE)>>

SleepGoal == goal.goalState = <<NumberEntry("energy", 1000)>>

ShelterPlan(first, second) ==
    <<first, second, "Make Axe", "Fell Tree", "Fell Tree", "Build Shelter">>

\* a tree is left for the second felling
TreeAfterFelling ==
    entityExists("tree", effect("Fell Tree", state, agent).state) = 0

WoodAndStone ==
    /\ entityExists("stone", state) = 0
    /\ entityExists("branch", state) = 0
    /\ entityExists("tree", state) = 0

EatGoal == goal.goalState = <<NumberEntry("hunger", 1000)>>

ApplePlan == <<"Pick up apple", "Eat apple">>

AppleWithinReach ==
    /\ entityExists("apple", state) = 0
    /\ entityExists("fire", state) # 0
    /\ \/ entityExists("branch", state) # 0
       \/ entityDistance("apple", state, agent)
            < entityDistance("branch", state, agent) + 4

FishGoal == goal.goalState = <<InventoryEntry(<<Count("fish", 1)>>)>>

CookedFishGoal == goal.goalState = <<InventoryEntry(<<Count("cookedFish", 1)>>)>>

EmptyHanded == agent.inventory = EmptyInventory /\ agent.holding = "null"

\* C13 as stated: an empty-handed agent in a grid with a branch gets a plan
\* of at least one action for inventory {fish: 1} and for inventory
\* {cookedFish: 1}.
C13_FishPlansExist ==
    ( /\ EmptyHanded
      /\ entityExists("branch", state) = 0
      /\ FishGoal \/ CookedFishGoal
      /\ pc = "done" )
    => result.status = "plan" /\ Len(result.plan) > 0

\* Light Fire puts a fire on the grid: the cell above the agent exists
FireCanBeLit == entityExists("fire", build("fire", state, agent)) = 0

\* C13 amended: the same, for an agent that has a cell above it or a fire
\* on the grid.
C13_FishPlansExistBelowTopRow ==
    ( /\ EmptyHanded
      /\ entityExists("branch", state) = 0
      /\ FishGoal \/ (CookedFishGoal /\ FireCanBeLit)
      /\ pc = "done" )
    => result.status = "plan" /\ Len(result.plan) > 0

\* a cooked fish planned where the fire and the fish are both missing
C13_Witness ==
    /\ EmptyHanded
    /\ entityExists("branch", state) = 0
    /\ entityExists("fire", state) # 0
    /\ CookedFishGoal
    /\ pc = "done"
    /\ result.status = "plan"
    /\ \E i, j \in 1 .. Len(result.plan) :
           result.plan[i] = "Light Fire" /\ result.plan[j] = "Catch Fish"

\* ---------------------------------------------------------------------
\* Properties of the tick loop.
\* ---------------------------------------------------------------------

\* what only the effect of an action does to an agent: its inventory, what
\* it holds or its shelter changes, or a drive rises
ChangedByEffect(a, b) ==
    \/ b.inventory # a.inventory
    \/ b.holding # a.holding
    \/ b.hasShelter # a.hasShelter
    \/ b.shelterLocation # a.shelterLocation
    \/ b.hunger > a.hunger
    \/ b.thirst > a.thirst
    \/ b.energy > a.energy
    \/ b.social > a.social

\* the grid changes in the fold over the agents (not by the fires that burn
\* down when the fold is over)
GridChangedInFold ==
    /\ tpc = "agents"
    /\ tpc' = "agents"
    /\ world'.background # world.background

\* C14: whenever a step of the tick loop shows the effect of an action on an
\* agent, or changes the grid while that agent is updated, the step is the
\* update of that agent, the agent has a plan, the canBePerformed of the
\* plan's head is 0 on the current state and agent, what is applied is the
\* effect of that one action, and the agent's plan is left without its head;
\* the update of the agent is then over for the tick.
C14_EffectOnlyOfPerformableHead ==
    [][ \A i \in 1 .. Len(world.agents) :
          LET a == world.agents[i]
              b == world'.agents[i]
          IN  (ChangedByEffect(a, b) \/ (GridChangedInFold /\ cur = i))
              => /\ tpc = "agents"
                 /\ cur = i
                 /\ cur' = i + 1
                 /\ a.plan # <<>>
                 /\ canBePerformed(Head(a.plan), world, withGoal(a)) = 0
                 /\ b = [effect(Head(a.plan), world, withGoal(a)).agent
                            EXCEPT !.plan = Tail(a.plan)]
                 /\ world'.background
                      = effect(Head(a.plan), world, withGoal(a)).state.background
      ]_vars

\* an agent has just performed the head of a plan of two actions
C14_Witness ==
    /\ did = "perform"
    /\ cur > 1
    /\ world.agents[cur - 1].plan # <<>>
    /\ world.agents[cur - 1].inventory # EmptyInventory

\* C15: when the update of a living agent finds that the head of its plan
\* cannot be performed (a ranged action without a target, or canBePerformed
\* non-zero once the agent is in range), the agent leaves the update with an
\* empty plan and with nothing but the decay of its drives, and the grid is
\* as it was; no other step of the loop gives the agent a plan; and the
\* update of a living agent with an empty plan and every drive above 0 calls
\* the planner.
C15_UnperformableHeadDiscardsPlan ==
    [][ \A i \in 1 .. Len(world.agents) :
          LET a == world.agents[i]
              b == world'.agents[i]
              ag == withGoal(a)
              head == Head(a.plan)
              target == findTarget(head, world, ag)
              noTarget == requiresInRange(head) /\ target = <<>>
              inRange == \/ ~requiresInRange(head)
                         \/ /\ target # <<>>
                            /\ distance(ag.position, target[1]) <= range(head)
              updated == tpc = "agents" /\ cur = i /\ a.alive /\ ~exhausted(a)
          IN  /\ ( /\ updated
                   /\ a.plan # <<>>
                   /\ noTarget \/ (inRange /\ canBePerformed(head, world, ag) # 0) )
                 => /\ b = [withAgentUpdate(world, ag) EXCEPT !.plan = <<>>]
                    /\ world'.background = world.background
                    /\ cur' = i + 1
              /\ cur # i => b.plan = a.plan
              /\ (updated /\ a.plan = <<>>)
                 => /\ tpc' = "first call"
                    /\ pc' = "search"
                    /\ agent' = ag
                    /\ state' = world
      ]_vars

\* an agent has just dropped a plan whose head had lost its target
C15_Witness ==
    /\ did = "no target"
    /\ cur > 1
    /\ world.agents[cur - 1].alive
    /\ world.agents[cur - 1].plan = <<>>

\* C16 as stated: a call of the planner is made from the update of a living
\* agent with an empty plan and from nowhere else, and the update of every
\* living agent with an empty plan makes the call.
C16_PlannerCalledOnce ==
    [][ /\ (pc = "done" /\ pc' = "search")
           => /\ tpc = "agents"
              /\ world.agents[cur].alive
              /\ world.agents[cur].plan = <<>>
        /\ \A i \in 1 .. Len(world.agents) :
             ( /\ tpc = "agents" /\ cur = i
               /\ world.agents[i].alive
               /\ world.agents[i].plan = <<>> )
             => pc' = "search"
      ]_vars

\* C16 amended: the planner is called from the update of an agent that is
\* alive, has every drive above 0 and has an empty plan, and every such
\* update calls it; when that call gives null or an empty plan the same
\* update calls it a second time, with the same state and the goal findGoal
\* gives, and not a third time; whatever the last call gave is stored as the
\* agent's plan; no call is made for any other agent.
C16_PlannerCalledOnceOrTwice ==
    [][ /\ (pc = "done" /\ pc' = "search")
           => \/ /\ tpc = "agents"
                 /\ world.agents[cur].alive
                 /\ ~exhausted(world.agents[cur])
                 /\ world.agents[cur].plan = <<>>
                 /\ tpc' = "first call"
              \/ /\ tpc = "first call"
                 /\ Len(newPlan) = 0
                 /\ tpc' = "second call"
                 /\ agent'.id = agent.id
                 /\ goal' = findGoal(agent)
                 /\ state' = state
        /\ \A i \in 1 .. Len(world.agents) :
             ( /\ tpc = "agents" /\ cur = i
               /\ world.agents[i].alive
               /\ ~exhausted(world.agents[i])
               /\ world.agents[i].plan = <<>> )
             => pc' = "search"
        /\ (tpc = "first call" /\ pc = "done" /\ Len(newPlan) = 0)
           => pc' = "search"
        /\ ( /\ pc = "done"
             /\ \/ tpc = "first call" /\ Len(newPlan) # 0
                \/ tpc = "second call" )
           => /\ tpc' = "agents"
              /\ pc' = "done"
              /\ cur' = cur + 1
              /\ world'.agents[cur].plan = newPlan
      ]_vars

\* the second call of one update has returned, again without a plan
C16_Witness ==
    /\ tpc = "second call"
    /\ pc = "done"
    /\ result.status = "null"

C18_MalformedGoalIsAnError ==
    ( /\ pc = "done"
      /\ tpc = "off"
      /\ \E i \in 1 .. Len(goal.goalState) :
            goal.goalState[i].key \notin DOMAIN agent )
    => result.status \notin {"plan", "null"}

\* C19 as stated: goalDistance is 0 when every drive target and every
\* inventory count of the goal is at most the agent's value and every
\* boolean or holding target equals the agent's value; and it is greater
\* than 0 when a boolean or holding target differs from the agent's value.
C19_TargetsSatisfiedAsStated ==
    LET gs == goal.goalState
        d == goalDistance(state, agent, gs)
        numberMet(e) == NumberOf(agent, e.key) # NaN /\ NumberOf(agent, e.key) >= e.num
        countsMet(e) == \A j \in 1 .. Len(e.inv) :
                           /\ e.inv[j].key \in Resources
                           /\ agent.inventory[e.inv[j].key] >= e.inv[j].value
        equal(e) == IF e.key = "holding" THEN agent.holding = e.str
                    ELSE BooleanEquals(agent, e.key, e.bool)
        discrete(e) == e.key = "holding" \/ e.type = "boolean"
    IN  /\ (\A i \in 1 .. Len(gs) :
               /\ gs[i].type = "number" => numberMet(gs[i])
               /\ gs[i].key = "inventory" => countsMet(gs[i])
               /\ discrete(gs[i]) => equal(gs[i]))
           => d = 0
        /\ (\E i \in 1 .. Len(gs) : discrete(gs[i]) /\ ~equal(gs[i]))
           => d > 0

\* C19 amended: goalDistance is 0 when every drive target is at most the
\* agent's value, every inventory count of the goal is exactly the agent's
\* count and every boolean or holding target equals the agent's value.  For
\* a goal all of whose fields and resources the agent has and none of whose
\* drive targets is met, goalDistance is greater than 0 when a boolean or
\* holding target differs from the agent's value and when an inventory count
\* differs from the agent's count, above as well as below.
C19_TargetsSatisfiedAsComputed ==
    LET gs == goal.goalState
        d == goalDistance(state, agent, gs)
        numberMet(e) == NumberOf(agent, e.key) # NaN /\ NumberOf(agent, e.key) >= e.num
        countsEqual(e) == \A j \in 1 .. Len(e.inv) :
                             /\ e.inv[j].key \in Resources
                             /\ agent.inventory[e.inv[j].key] = e.inv[j].value
        equal(e) == IF e.key = "holding" THEN agent.holding = e.str
                    ELSE BooleanEquals(agent, e.key, e.bool)
        discrete(e) == e.key = "holding" \/ e.type = "boolean"
        known(e) == /\ e.type = "number" => NumberOf(agent, e.key) # NaN
                    /\ \A j \in 1 .. Len(e.inv) : e.inv[j].key \in Resources
        open == \A i \in 1 .. Len(gs) :
                   /\ known(gs[i])
                   /\ gs[i].type = "number" => ~numberMet(gs[i])
    IN  /\ (\A i \in 1 .. Len(gs) :
               /\ gs[i].type = "number" => numberMet(gs[i])
               /\ gs[i].key = "inventory" => countsEqual(gs[i])
               /\ discrete(gs[i]) => equal(gs[i]))
           => d = 0
        /\ (open /\ \E i \in 1 .. Len(gs) : discrete(gs[i]) /\ ~equal(gs[i]))
           => d > 0
        /\ (open /\ \E i \in 1 .. Len(gs) :
                       gs[i].key = "inventory" /\ ~countsEqual(gs[i]))
           => d > 0

\* the agent owns more than the goal asks for, and the planner has measured
\* the goal as unmet and ended
C19_Witness ==
    /\ pc = "done"
    /\ tpc = "off"
    /\ \E r \in Resources :
          /\ goal.goalState = <<InventoryEntry(<<Count(r, 0)>>)>>
          /\ agent.inventory[r] = 1
    /\ goalDistance(state, agent, goal.goalState) = 1000

\* C20: when a numeric key of the goal (not inventory, not holding) names a
\* field whose value for the agent is at least the target, goalDistance is 0
\* for the whole goal, whatever the other keys of the goal and wherever they
\* are listed.
C20_NumericKeyShortCircuits ==
    (\E i \in 1 .. Len(goal.goalState) :
        LET e == goal.goalState[i]
        IN  /\ e.type = "number"
            /\ e.key \notin {"inventory", "holding"}
            /\ NumberOf(agent, e.key) # NaN
            /\ NumberOf(agent, e.key) >= e.num)
    => goalDistance(state, agent, goal.goalState) = 0

\* the planner has returned the empty plan for a goal whose target on hunger
\* is met and stands between an unmet target on the shelter and unmet
\* targets on the held item and the stones
C20_Witness ==
    /\ pc = "done"
    /\ tpc = "off"
    /\ result = Returned(<<>>)
    /\ Len(goal.goalState) = 4
    /\ goal.goalState[2] = NumberEntry("hunger", 300)
    /\ agent.hunger >= 300
    /\ ~agent.hasShelter
    /\ agent.holding # "axe"
    /\ agent.inventory["stones"] # 2

\* C21: when no numeric key of the goal is at or above its target,
\* goalDistance is the sum, over the keys of the goal, of |target count -
\* agent count| for each resource under inventory, of 1 for a holding target
\* that differs from what the agent holds, of |target - value| / 100 for
\* each numeric key and of 1 for each boolean key whose value differs (in
\* thousandths here); and it is never below 0.
C21_DistanceIsReferenceSum ==
    LET gs == goal.goalState
        d == goalDistance(state, agent, gs)
        met(e) == /\ e.type = "number"
                  /\ e.key \notin {"inventory", "holding"}
                  /\ NumberOf(agent, e.key) # NaN
                  /\ NumberOf(agent, e.key) >= e.num
        RECURSIVE counts(_, _)
        counts(inv, j) ==
            IF j = 0 THEN 0
            ELSE Plus(counts(inv, j - 1),
                      IF inv[j].key \in Resources
                      THEN 1000 * Abs(inv[j].value - agent.inventory[inv[j].key])
                      ELSE NaN)
        term(e) ==
            IF e.key = "inventory" THEN counts(e.inv, Len(e.inv))
            ELSE IF e.key = "holding" THEN (IF agent.holding = e.str THEN 0 ELSE 1000)
            ELSE IF e.type = "number"
            THEN (IF NumberOf(agent, e.key) = NaN THEN NaN
                  ELSE Abs(e.num - NumberOf(agent, e.key)))
            ELSE IF e.type = "boolean"
            THEN (IF BooleanEquals(agent, e.key, e.bool) THEN 0 ELSE 1000)
            ELSE 0
        RECURSIVE reference(_)
        reference(i) == IF i = 0 THEN 0 ELSE Plus(reference(i - 1), term(gs[i]))
    IN  /\ (\A i \in 1 .. Len(gs) : ~met(gs[i])) => d = reference(Len(gs))
        /\ d = NaN \/ d >= 0

\* the planner has ended on a goal with two unmet counts, of which the agent
\* owns one unit of one: the distance is the 1 of the other
C21_Witness ==
    /\ pc = "done"
    /\ tpc = "off"
    /\ goal.goalState = <<InventoryEntry(<<Count("stones", 1), Count("branches", 1)>>)>>
    /\ agent.inventory["stones"] = 1
    /\ agent.inventory["branches"] = 0
    /\ goalDistance(state, agent, goal.goalState) = 1000

\* ---------------------------------------------------------------------
\* Properties of applyActions and of the search.
\* ---------------------------------------------------------------------

\* C22: for the node the loop has just shifted, strict application of its
\* flattening from the original state and agent gives the composition of
\* the effects of the actions before the first one whose canBePerformed is
\* not 0 where its turn comes (of all of them when there is none): nothing
\* after that action is applied.
C22_StrictStopsAtFirstUnperformable ==
    solution # <<>> =>
        LET acts == solutionToActions(solution[1])
            start == Effected(state, agent)
            after(j) == applyActions(SubSeq(acts, 1, j), start, FALSE)
            stops == {j \in 1 .. Len(acts) :
                         canBePerformed(acts[j], after(j - 1).state,
                                        after(j - 1).agent) # 0}
            first == CHOOSE j \in stops : \A k \in stops : j <= k
        IN  applyActions(acts, start, TRUE)
              = IF stops = {} THEN after(Len(acts)) ELSE after(first - 1)

\* the node shifted has a flattening in which an action that cannot be
\* performed is followed by one that could be performed where the
\* application stopped
C22_Witness ==
    /\ solution # <<>>
    /\ LET acts == solutionToActions(solution[1])
           stopped == applyActions(acts, Effected(state, agent), TRUE)
       IN  \E j \in 1 .. Len(acts) :
              /\ stopped = applyActions(SubSeq(acts, 1, j - 1),
                                        Effected(state, agent), FALSE)
              /\ canBePerformed(acts[j], stopped.state, stopped.agent) # 0
              /\ \E l \in (j + 1) .. Len(acts) :
                    canBePerformed(acts[l], stopped.state, stopped.agent) = 0

\* C23: for the node the loop has just shifted, and for that node's action
\* list with any action of the catalog put in front (the lists the
\* look-ahead applies), non-strict application from the original state and
\* agent gives the composition of the effects of all the actions of the
\* list, from the first to the last, whatever canBePerformed gives.
C23_NonStrictAppliesEveryEffect ==
    solution # <<>> =>
        \A acts \in {solution[1].actions}
                      \cup {<<AllActions[i]>> \o solution[1].actions :
                               i \in 1 .. Len(AllActions)} :
            LET RECURSIVE composed(_)
                composed(j) ==
                    IF j = 0 THEN Effected(state, agent)
                    ELSE LET before == composed(j - 1)
                         IN  effect(acts[j], before.state, before.agent)
            IN  applyActions(acts, Effected(state, agent), FALSE)
                  = composed(Len(acts))

\* the look-ahead on the node shifted applies an action that cannot be
\* performed, and a count of the inventory falls below 0
C23_Witness ==
    /\ solution # <<>>
    /\ pc = "search"
    /\ \E i \in 1 .. Len(AllActions) :
          LET acts == <<AllActions[i]>> \o solution[1].actions
              current == applyActions(acts, Effected(state, agent), FALSE)
          IN  /\ canBePerformed(AllActions[i], state, agent) # 0
              /\ \E r \in Resources : current.agent.inventory[r] < 0

\* C24: the node a pass of the loop shifts is a node of the queue whose cost
\* is at most the cost of every node of the queue at that moment, the cost
\* of a node being the sum of the costs, taken on the original state and
\* agent, of the actions of the node and of the nodes its nextSteps links
\* lead to.
C24_ShiftedNodeIsCheapest ==
    [][ (pc = "search" /\ solution' # <<>>)
        => LET total(n) == sumCosts(solutionToActions(n), 1, state, agent)
           IN  /\ solution'[1] \in solutionQueue
               /\ \A m \in solutionQueue :
                     /\ cost(m, state, agent) = total(m)
                     /\ total(solution'[1]) <= total(m)
      ]_vars

\* a node has been shifted while a dearer node, enqueued before, waits in
\* the queue
C24_Witness ==
    /\ pc = "search"
    /\ solution # <<>>
    /\ \E m \in solutionQueue \ expand(solution[1]) :
          cost(solution[1], state, agent) < cost(m, state, agent)

\* C25: in a pass of the loop that expands the node shifted, a node derived
\* from it by an action of the catalog is enqueued exactly when that action
\* lowers the progress measure, which is goalDistance to the goal for a node
\* without a nextSteps link and canBePerformed of the node's toPerform for a
\* node with one, taken on the state and agent that non-strict application
\* of the node's own action list alone (with the action in front, for the
\* new measure) gives from the original state and agent.
C25_MeasureOfExpandedNode ==
    [][ (pc = "search" /\ pc' = "search" /\ solution' # <<>>)
        => LET n == solution'[1]
               on(acts) == applyActions(acts, Effected(state, agent), FALSE)
               progress(acts) ==
                   IF n.nextSteps = <<>>
                   THEN goalDistance(on(acts).state, on(acts).agent, goal.goalState)
                   ELSE canBePerformed(n.toPerform, on(acts).state, on(acts).agent)
           IN  \A i \in 1 .. Len(AllActions) :
                  LET longer == <<AllActions[i]>> \o n.actions
                      derived == { [n EXCEPT !.actions = longer],
                                   Node(<<[n EXCEPT !.actions = longer]>>,
                                        AllActions[i], <<>>) }
                  IN  (derived \cap solutionQueue' # {})
                        <=> DeltaPositive(progress(n.actions), progress(longer))
      ]_vars

\* a node with a nextSteps link and actions of its own has been expanded
\* and has given the queue a node
C25_Witness ==
    /\ pc = "search"
    /\ solution # <<>>
    /\ solution[1].nextSteps # <<>>
    /\ solution[1].actions # <<>>
    /\ expand(solution[1]) # {}
    /\ expand(solution[1]) \subseteq solutionQueue

\* C26 as stated: when an action lowers the measure of the node shifted to
\* exactly 0, the queue receives a node with no actions of its own, that
\* action as toPerform, and the node shifted itself as nextSteps.
C26_RefinementLinksPoppedNode ==
    [][ (pc = "search" /\ pc' = "search" /\ solution' # <<>>)
        => LET n == solution'[1]
           IN  \A i \in 1 .. Len(AllActions) :
                  LET a == AllActions[i]
                      longer == <<a>> \o n.actions
                  IN  ( /\ DeltaPositive(measure(n, n.actions), measure(n, longer))
                        /\ measure(n, longer) = 0 )
                      => Node(<<n>>, a, <<>>) \in solutionQueue'
      ]_vars

\* C26 amended: when an action lowers the measure of the node shifted to
\* exactly 0, the queue receives a node with no actions of its own, that
\* action as toPerform, and as nextSteps a node with the toPerform and
\* nextSteps of the node shifted and with the action followed by the
\* actions of the node shifted as its action list; the queue receives no
\* other node for that action.
C26_RefinementLinksExtendedNode ==
    [][ (pc = "search" /\ pc' = "search" /\ solution' # <<>>)
        => LET n == solution'[1]
           IN  \A i \in 1 .. Len(AllActions) :
                  LET a == AllActions[i]
                      longer == <<a>> \o n.actions
                      extended == [nextSteps |-> n.nextSteps,
                                   toPerform |-> n.toPerform,
                                   actions |-> longer]
                  IN  ( /\ DeltaPositive(measure(n, n.actions), measure(n, longer))
                        /\ measure(n, longer) = 0 )
                      => /\ [nextSteps |-> <<extended>>, toPerform |-> a,
                             actions |-> <<>>] \in solutionQueue'
                         /\ extended \notin solutionQueue'
                         /\ [nextSteps |-> <<n>>, toPerform |-> a,
                             actions |-> <<>>] \notin solutionQueue'
      ]_vars

\* the expansion of a node with actions of its own has given the queue a
\* refinement node
C26_Witness ==
    /\ pc = "search"
    /\ solution # <<>>
    /\ solution[1].actions # <<>>
    /\ \E m \in solutionQueue :
          /\ m.actions = <<>>
          /\ m.nextSteps # <<>>
          /\ m.nextSteps[1] = [solution[1] EXCEPT !.actions =
                                  <<m.toPerform>> \o solution[1].actions]

\* C27: when an action lowers the measure of the node shifted, but not to 0,
\* the queue receives the node with the nextSteps and toPerform of the node
\* shifted and with the action followed by the actions of the node shifted
\* as its action list, and receives no refinement node for that action.
C27_PartialProgressExtendsNode ==
    [][ (pc = "search" /\ pc' = "search" /\ solution' # <<>>)
        => LET n == solution'[1]
           IN  \A i \in 1 .. Len(AllActions) :
                  LET a == AllActions[i]
                      longer == <<a>> \o n.actions
                      extended == [nextSteps |-> n.nextSteps,
                                   toPerform |-> n.toPerform,
                                   actions |-> longer]
                  IN  ( /\ DeltaPositive(measure(n, n.actions), measure(n, longer))
                        /\ measure(n, longer) > 0 )
                      => /\ extended \in solutionQueue'
                         /\ \A m \in solutionQueue' \ solutionQueue :
                               m = extended \/ m.toPerform # a \/ m.actions # <<>>
      ]_vars

\* the expansion of a node with a nextSteps link has given the queue a node
\* with the same link and toPerform and one action more
C27_Witness ==
    /\ pc = "search"
    /\ solution # <<>>
    /\ solution[1].nextSteps # <<>>
    /\ \E i \in 1 .. Len(AllActions) :
          /\ measure(solution[1], <<AllActions[i]>> \o solution[1].actions) > 0
          /\ [solution[1] EXCEPT !.actions = <<AllActions[i]>> \o solution[1].actions]
                \in solutionQueue

\* C28: after every step every node of the queue other than the seed comes
\* from a node by an action put in front of its list that strictly lowered
\* the measure of that node; and a pass that expands a node adds at most
\* one node for each action of the catalog, none for an action that leaves
\* the measure equal or raises it, and nothing else.
C28_OnlyProgressIsEnqueued ==
    [][ /\ \A m \in solutionQueue' \ {Seed} :
              LET grown == IF m.actions = <<>> THEN m.nextSteps[1] ELSE m
                  from == [grown EXCEPT !.actions = Tail(grown.actions)]
              IN  /\ grown.actions # <<>>
                  /\ m.actions = <<>> => m.toPerform = Head(grown.actions)
                  /\ DeltaPositive(measure(from, from.actions),
                                   measure(from, grown.actions))
        /\ (pc = "search" /\ pc' = "search" /\ solution' # <<>>)
           => LET n == solution'[1]
                  derived(a) == { [n EXCEPT !.actions = <<a>> \o n.actions],
                                  Node(<<[n EXCEPT !.actions = <<a>> \o n.actions]>>,
                                       a, <<>>) }
              IN  /\ \A i \in 1 .. Len(AllActions) :
                        LET a == AllActions[i]
                        IN  /\ Cardinality(derived(a) \cap solutionQueue') <= 1
                            /\ ~DeltaPositive(measure(n, n.actions),
                                              measure(n, <<a>> \o n.actions))
                               => derived(a) \cap solutionQueue' = {}
                  /\ solutionQueue' \ solutionQueue
                       \subseteq UNION {derived(AllActions[i]) :
                                           i \in 1 .. Len(AllActions)}
      ]_vars

\* a node has been expanded, some actions of the catalog gave the queue a
\* node and others, which do not lower the measure, gave it none
C28_Witness ==
    /\ pc = "search"
    /\ solution # <<>>
    /\ expand(solution[1]) # {}
    /\ expand(solution[1]) \subseteq solutionQueue
    /\ \E i \in 1 .. Len(AllActions) :
          /\ measure(solution[1], <<AllActions[i]>> \o solution[1].actions)
                >= measure(solution[1], solution[1].actions)
          /\ measure(solution[1], solution[1].actions) > 0
          /\ [solution[1] EXCEPT !.actions = <<AllActions[i]>> \o solution[1].actions]
                \notin solutionQueue

C30_QueuedNodesUnchanged ==
    [][ (pc = "search" /\ pc' = "search" /\ solution' # <<>>)
        => LET n == solution'[1]
               added == solutionQueue' \ (solutionQueue \ {n})
           IN  /\ solutionQueue \ {n} \subseteq solutionQueue'
               /\ n \notin solutionQueue'
               /\ added \cap solutionQueue = {}
               /\ \A m \in added :
                     (m.actions = <<>> /\ m.nextSteps # <<>>)
                     => m.nextSteps[1] \notin solutionQueue \cup {n}
      ]_vars

\* a node has been expanded into new nodes while a node with a link,
\* enqueued before, waits in the queue
C30_Witness ==
    /\ pc = "search"
    /\ solution # <<>>
    /\ expand(solution[1]) # {}
    /\ expand(solution[1]) \subseteq solutionQueue
    /\ \E m \in solutionQueue \ expand(solution[1]) : m.nextSteps # <<>>

\* ---------------------------------------------------------------------
\* Invariants of the queue and of the loop.
\* ---------------------------------------------------------------------

\* C32: for every node of the queue and for the node shifted, and for every
\* node a chain of nextSteps links leads to from them: a node with a link
\* has a toPerform that is not null and is the first action of the action
\* list of the node it links to, and a node without a link has toPerform
\* null; every chain ends at a node without a link.
C32_LinkedNodesPerformHeadOfLink ==
    \A n \in solutionQueue \cup {solution[i] : i \in 1 .. Len(solution)} :
        LET RECURSIVE depth(_)
            depth(m) == IF m.nextSteps = <<>> THEN 0 ELSE 1 + depth(m.nextSteps[1])
            RECURSIVE level(_, _)
            level(m, k) == IF k = 0 THEN m ELSE level(m.nextSteps[1], k - 1)
        IN  /\ level(n, depth(n)).nextSteps = <<>>
            /\ \A k \in 0 .. depth(n) :
                  LET l == level(n, k)
                  IN  IF l.nextSteps = <<>>
                      THEN l.toPerform = "null"
                      ELSE /\ l.toPerform \in ActionNames
                           /\ l.nextSteps[1].actions # <<>>
                           /\ l.toPerform = Head(l.nextSteps[1].actions)

\* the queue holds a node with actions of its own that links to a node that
\* links to a third
C32_Witness ==
    /\ pc = "search"
    /\ \E n \in solutionQueue :
          /\ n.actions # <<>>
          /\ n.nextSteps # <<>>
          /\ n.nextSteps[1].nextSteps # <<>>

\* C33: a call that begins with a goalDistance other than 0 on the state
\* and agent it was given ends with null or with a plan of one action at
\* least; the plan without actions is returned only for a goal whose
\* distance is 0 at the start.
C33_EmptyPlanOnlyForMetGoal ==
    pc = "done"
    => /\ result.status \in {"null", "plan"}
       /\ goalDistance(state, agent, goal.goalState) # 0
          => (result.status = "null" \/ Len(result.plan) >= 1)
       /\ (result.status = "plan" /\ result.plan = <<>>)
          => goalDistance(state, agent, goal.goalState) = 0

\* a call that began with an unmet goal has returned a plan of two actions
\* or more
C33_Witness ==
    /\ pc = "done"
    /\ tpc = "off"
    /\ goalDistance(state, agent, goal.goalState) > 0
    /\ result.status = "plan"
    /\ Len(result.plan) >= 2

(***************************************************************************)
(* Invariants and step properties of the tick loop.                        *)
(***************************************************************************)

\* C34: in every state the tick loop reaches, every count of every agent's
\* inventory (logs, branches, stones, apples, fish, cookedFish) is 0 or
\* more; and every action of the catalog that can be performed by an agent
\* whose counts are 0 or more leaves every count at 0 or more.
C34_InventoryCountsNotNegative ==
    /\ tpc # "off"
       => \A i \in 1 .. Len(world.agents) :
             \A r \in Resources : world.agents[i].inventory[r] >= 0
    /\ did = "start"
       => \A name \in ActionNames, inv \in [Resources -> 0 .. 2] :
             LET ag == [world.agents[1] EXCEPT !.inventory = inv]
             IN  canBePerformed(name, world, ag) = 0
                 => \A r \in Resources :
                       effect(name, world, ag).agent.inventory[r] >= 0

\* an agent has just performed an effect that took an apple from the
\* inventory it began the tick with
C34_Witness ==
    /\ tpc = "agents"
    /\ did = "perform"
    /\ cur > 1
    /\ world.agents[cur - 1].inventory["apples"]
           < snapshot.agents[cur - 1].inventory["apples"]

\* C35: a tick in which a living agent performs the effect of the head of
\* its plan leaves every drive that the effect does not set as it was
\* before the tick; every other tick of a living agent with all drives above
\* 0 (it plans, it moves, it finds no target, it discards its plan) lowers
\* each of hunger, thirst, energy and social.
C35_DecayExactlyWithoutEffect ==
    [][(/\ did' \in {"perform", "move", "no target", "discard", "planned"}
        /\ cur' = cur + 1)
       => LET before == world.agents[cur]
              after == world'.agents[cur]
              drives == {"hunger", "thirst", "energy", "social"}
              nextAction == Head(before.plan)
              set == CASE nextAction \in {"Eat apple", "Eat Cooked Fish"}
                              -> {"hunger"}
                       [] nextAction = "Drink from Well" -> {"thirst"}
                       [] nextAction = "Sleep at Shelter" -> {"energy"}
                       [] nextAction = "Chat" -> {"social"}
                       [] OTHER -> {}
          IN  /\ before.alive /\ ~exhausted(before)
              /\ after.alive
              /\ IF did' = "perform"
                 THEN \A d \in drives \ set : after[d] = before[d]
                 ELSE \A d \in drives : after[d] < before[d]]_vars

\* an agent has just performed Eat apple: its hunger is set, and its
\* thirst, energy and social are those it began the tick with
C35_Witness ==
    /\ tpc = "agents"
    /\ did = "perform"
    /\ cur > 1
    /\ snapshot.agents[cur - 1].plan # <<>>
    /\ Head(snapshot.agents[cur - 1].plan) = "Eat apple"
    /\ world.agents[cur - 1].hunger # snapshot.agents[cur - 1].hunger
    /\ world.agents[cur - 1].thirst = snapshot.agents[cur - 1].thirst
    /\ world.agents[cur - 1].energy = snapshot.agents[cur - 1].energy
    /\ world.agents[cur - 1].social = snapshot.agents[cur - 1].social

\* C36: a living agent with hunger, thirst, energy or social at or below 0
\* when its update begins becomes not alive in that update, and no other
\* field of it changes; an agent that is not alive is never changed again
\* by any step; the number of agents and their ids never change.
C36_DeathIsAbsorbing ==
    [][tpc # "off"
       => /\ Len(world'.agents) = Len(world.agents)
          /\ \A i \in 1 .. Len(world.agents) :
                /\ world'.agents[i].id = world.agents[i].id
                /\ ~world.agents[i].alive
                   => world'.agents[i] = world.agents[i]
          /\ (/\ tpc = "agents"
              /\ cur <= Len(world.agents)
              /\ world.agents[cur].alive
              /\ \E d \in {"hunger", "thirst", "energy", "social"} :
                    world.agents[cur][d] <= 0)
             => /\ tpc' = "agents"
                /\ cur' = cur + 1
                /\ world'.agents[cur] =
                       [world.agents[cur] EXCEPT !.alive = FALSE]]_vars

\* an agent that died of thirst in an earlier tick has been passed over by
\* a later update
C36_Witness ==
    /\ tpc = "agents"
    /\ did = "dead"
    /\ cur > 1
    /\ ~world.agents[cur - 1].alive
    /\ ~snapshot.agents[cur - 1].alive
    /\ world.agents[cur - 1].thirst <= 0
    /\ world.agents[cur - 1] = snapshot.agents[cur - 1]

C38_SatisfiedIffDistanceZero ==
    tpc # "off"
    => LET levels == {799, 800, 1000, 1001}
           moods == {[world.agents[1] EXCEPT !.energy = e, !.thirst = t,
                                             !.hunger = h, !.social = s,
                                             !.hasShelter = b] :
                        e \in {500, 900}, t \in {500, 900}, h \in {400, 900},
                        s \in {500, 900}, b \in BOOLEAN}
           selectable == {findGoal(m) : m \in moods}
           agents == {world.agents[i] : i \in 1 .. Len(world.agents)}
                     \cup (IF did = "start"
                           THEN {[world.agents[1] EXCEPT
                                     !.energy = e, !.thirst = t, !.hunger = h,
                                     !.social = s, !.hasShelter = b] :
                                    e \in levels, t \in levels, h \in levels,
                                    s \in levels, b \in BOOLEAN}
                           ELSE {})
       IN  /\ Cardinality(selectable) = 6
           /\ \A ag \in agents, g \in selectable :
                 goalSatisfied(ag, g)
                    <=> goalDistance(world, ag, g.goalState) = 0

\* the loop gave an agent the goal Build Shelter, the agent has built, and
\* both tests call the goal met
C38_Witness ==
    /\ tpc = "agents"
    /\ did = "perform"
    /\ world.agents[1].goal.name = "Build Shelter"
    /\ snapshot.agents[1].goal = world.agents[1].goal
    /\ goalSatisfied(world.agents[1], world.agents[1].goal)
    /\ goalDistance(world, world.agents[1], world.agents[1].goal.goalState) = 0
    /\ ~goalSatisfied(snapshot.agents[1], world.agents[1].goal)
    /\ goalDistance(snapshot, snapshot.agents[1],
                    world.agents[1].goal.goalState) > 0

\* C39: the position of an agent changes only in the update of that agent,
\* living, when the head of its plan requires range and the target found in
\* that update is farther from it (Manhattan distance) than the range of the
\* action; the step changes row and column by at most 1 each and brings the
\* agent nearer to that target by 1 at least.  And the update of a living
\* agent whose head requires range and whose target is farther than the
\* range is such a step, so with the same target the agent is within range
\* after at most as many updates as the distance it started with.
C39_MovementMakesProgress ==
    [][tpc # "off"
       => /\ \A i \in 1 .. Len(world.agents) :
                world'.agents[i].position # world.agents[i].position
                => /\ tpc = "agents"
                   /\ i = cur
                   /\ did' = "move"
          /\ (/\ tpc = "agents"
              /\ cur' = cur + 1
              /\ did' \in {"perform", "move", "no target", "discard"})
             => LET before == world.agents[cur]
                    after == world'.agents[cur]
                    nextAction == Head(before.plan)
                    nextDestination == findTarget(nextAction, world, before)
                    far == /\ requiresInRange(nextAction)
                           /\ nextDestination # <<>>
                           /\ distance(before.position, nextDestination[1])
                                  > range(nextAction)
                IN  /\ before.alive
                    /\ (did' = "move") <=> far
                    /\ far
                       => /\ after.alive
                          /\ after.plan = before.plan
                          /\ Abs(after.position.row - before.position.row) <= 1
                          /\ Abs(after.position.column
                                     - before.position.column) <= 1
                          /\ distance(after.position, nextDestination[1])
                                 <= distance(before.position,
                                             nextDestination[1]) - 1]_vars

\* an agent has just stepped, in row and in column, towards a target that
\* was more than two steps away
C39_Witness ==
    /\ tpc = "agents"
    /\ did = "move"
    /\ cur > 1
    /\ world.agents[cur - 1].alive
    /\ world.agents[cur - 1].position.row
           # snapshot.agents[cur - 1].position.row
    /\ world.agents[cur - 1].position.column
           # snapshot.agents[cur - 1].position.column

====
